---- MODULE Spec2Model ----
(***************************************************************************)
(* A model of openlane/flows/flow.py: the Flow base class (run lifecycle,  *)
(* stage bookkeeping, step directories), SequentialFlow.run and the        *)
(* FlowFactory registry.                                                   *)
(*                                                                         *)
(* Optional[...] values are sequences: None is <<>>, a present object x is *)
(* <<x>>; a path is the non-empty sequence of its components, so a path    *)
(* field is None exactly when it is <<>>.  Text that is formatted or       *)
(* compared (stage prefixes, step ids) is a sequence of character codes.   *)
(***************************************************************************)
EXTENDS Integers, Sequences, FiniteSets, TLC

\* ---------------------------------------------------------------- bounds
\* Most step types a SequentialFlow declares.
MaxSteps == 2
\* Most start() invocations on the one Flow object.
MaxRuns == 2
\* Most stages a run() other than SequentialFlow.run begins.
MaxOrdinal == 10

\* Largest expected stage count current_stage_prefix is computed for.
MaxStageCount == 150
\* Most FlowFactory.register calls.
MaxRegisters == 3
\* Most run_step_async calls, and the worker threads of the pool.
MaxSubmits == 4
MaxWorkers == 2

\* ------------------------------------------------------------ vocabulary
None == <<>>
Some(x) == <<x>>

\* The design directory the Flow was constructed with.
design_dir == "design"
\* The text config.dumps() yields.
ConfigDump == "config.dumps()"
\* Flow.name is None for SequentialFlow, so get_name() is the class name.
get_name == "SequentialFlow"

\* Tags a caller passes, and the tags strftime can derive from the clock.
Tags == {"t1", "t2"}
TimeTags == {"RUN_now"}

\* A Step type is numbered by its position in the class's Steps list.
StepTypes == 1 .. MaxSteps
\* Step.id / Step.name of a step type, as text: "A", "B", ...
StepId(cls) == <<64 + cls>>
StepName(cls) == StepId(cls)

\* State objects, told apart by where they were made.
DefaultState(call) == [src |-> "default", n |-> call]
StepState(inst) == [src |-> "step", n |-> inst]

\* The State step.start(*args) produces: told apart by the step and by what it
\* was started with.
StepStart(step, args) == [src |-> "step", n |-> step.inst, args |-> args]

\* os.path.join on a path and one more component.
Join(path, name) == Append(path, name)

VARIABLES
    Steps,        \* class attribute Steps: the declared step types
    steps,        \* self.steps: step instances created so far
    ordinal,      \* self.ordinal
    max_stage,    \* self.max_stage
    task_id,      \* self.task_id
    progress,     \* self.progress
    run_dir,      \* self.run_dir
    tmp_dir,      \* self.tmp_dir
    toolbox,      \* self.toolbox
    pc,           \* where the caller's thread is
    with_state,   \* start()'s with_initial_state argument
    state_list,   \* run()'s local state_list
    idx,          \* run()'s position in `for cls in self.Steps`
    result,       \* start()'s local result
    fs,           \* the filesystem: the directories and files that exist
    calls,        \* one record per start() invocation, as the caller saw it
    dirResult,    \* what a dir_for_step call has just done (cleared by the
                  \* next operation)
    takes,        \* the two latest dir_for_step results of the invocation
    prefixResult, \* what the latest current_stage_prefix call returned
    _registry,    \* FlowFactory._registry: the dict, in insertion order
    registered,   \* the types passed to register so far, in call order
    getResult,    \* what the latest FlowFactory.get call did
    listResult,   \* what the latest FlowFactory.list call returned
    tpe,          \* self.tpe: the pool's work queue and the work being run
    futures       \* the Future of every run_step_async call, by handle

vars == <<Steps, steps, ordinal, max_stage, task_id, progress, run_dir, tmp_dir,
          toolbox, pc, with_state, state_list, idx, result, fs, calls, dirResult,
          takes, prefixResult, _registry, registered, getResult, listResult,
          tpe, futures>>

factoryVars == <<_registry, registered, getResult, listResult>>
poolVars == <<tpe, futures>>

flowFields == <<ordinal, max_stage, task_id, progress, run_dir, tmp_dir, toolbox>>
runLocals == <<with_state, state_list, idx, result>>

\* ------------------------------------------------------ the caller's view
NoDirCall == [called |-> FALSE, inflight |-> FALSE, raised |-> FALSE,
              dir |-> None, base |-> <<>>]
cur == Len(calls)
Running == pc # "idle"

\* ------------------------------------------------------------- filesystem
\* mkdirp(path): the directory exists afterwards; no error if it already did.
mkdirp(files, path) ==
    files \cup {[path |-> path, content |-> "<dir>"]}

\* open(path, "w") and write(text): the file holds exactly text afterwards.
write_file(files, path, text) ==
    {f \in files : f.path # path} \cup {[path |-> path, content |-> text]}

\* -------------------------------------------------- stage prefix (text)
\* str(n) for n >= 0: the decimal digits, most significant first.
RECURSIVE str(_)
str(n) == IF n < 10 THEN <<48 + n>> ELSE str(n \div 10) \o <<48 + (n % 10)>>

\* "%0<width>d" % n for n >= 0: zeros on the left up to width, never cut.
RECURSIVE zero_pad(_, _)
zero_pad(digits, width) ==
    IF Len(digits) >= width THEN digits ELSE zero_pad(<<48>> \o digits, width)

\* The prefix with the width dropped ("%d-"): the ordinal is never padded.
stage_prefix_unpadded(max, ord) == str(ord) \o <<45>>

\* Flow.current_stage_prefix, as a function of the two fields it reads.
stage_prefix(max, ord) ==
    LET max_stage_digits == Len(str(max))
    IN  zero_pad(str(ord), max_stage_digits) \o <<45>>

current_stage_prefix == stage_prefix(max_stage, ordinal)

\* ------------------------------------------------- progress bookkeeping
NoTracking == progress = None \/ task_id = None

\* Progress(...), progress.start(), progress.add_task(get_name()).
NewProgress ==
    [started |-> TRUE, total |-> None, completed |-> 0, description |-> <<get_name>>]

\* Flow.set_max_stage_count
set_max_stage_count(count) ==
    IF NoTracking
    THEN UNCHANGED <<max_stage, progress>>
    ELSE /\ max_stage' = count
         /\ progress' = Some([progress[1] EXCEPT !.total = Some(count)])

\* Flow.start_stage
start_stage(name) ==
    IF NoTracking
    THEN UNCHANGED <<ordinal, progress>>
    ELSE /\ ordinal' = ordinal + 1
         /\ progress' = Some([progress[1] EXCEPT
                !.description = <<get_name, ordinal + 1, name>>])

\* Flow.end_stage, where self.progress is set.
end_stage ==
    progress' = Some([progress[1] EXCEPT !.completed = ordinal])

\* Flow.dir_for_step: what the call does, as the record kept in dirResult.
dir_for_step(step) ==
    IF run_dir = None
    THEN [called |-> TRUE, inflight |-> Running, raised |-> TRUE,
          dir |-> None, base |-> <<>>]
    ELSE [called |-> TRUE, inflight |-> Running, raised |-> FALSE,
          dir |-> run_dir, base |-> current_stage_prefix \o step.id]

\* A step object of a step type: cls().
NewStep(cls, inst) == [cls |-> cls, inst |-> inst, id |-> StepId(cls), name |-> StepName(cls)]

\* ------------------------------------------------------------- Flow.__init__
Init ==
    /\ Steps \in {[i \in 1 .. n |-> i] : n \in 0 .. MaxSteps}
    /\ steps = <<>>
    /\ ordinal = 0
    /\ max_stage = 0
    /\ task_id = None
    /\ progress = None
    /\ run_dir = None
    /\ tmp_dir = None
    /\ toolbox = None
    /\ pc = "idle"
    /\ with_state = None
    /\ state_list = <<>>
    /\ idx = 0
    /\ result = None
    /\ fs = {}
    /\ calls = <<>>
    /\ dirResult = NoDirCall
    /\ takes = <<>>
    /\ prefixResult = None
    /\ _registry = <<>>
    /\ registered = <<>>
    /\ getResult = None
    /\ listResult = None
    /\ tpe = [queue |-> <<>>, running |-> {}]
    /\ futures = <<>>

\* ------------------------------------------------------------- Flow.start
\* What a caller passes as with_initial_state: nothing, or the last State of
\* a lineage an earlier start() returned.
InitialStates ==
    {None} \cup
    {Some(c.result[1].lineage[Len(c.result[1].lineage)]) :
        c \in {calls[k] : k \in {j \in 1 .. cur : calls[j].result # None}}}

\* start(), up to the Toolbox: the tag, the run directory, the scratch directory.
StartCall(with_initial_state, tagArg, now) ==
    /\ pc = "idle"
    /\ cur < MaxRuns
    /\ LET tag == IF tagArg = None THEN now ELSE tagArg[1]
           dir == <<design_dir, "runs", tag>>
       IN  /\ run_dir' = dir
           /\ tmp_dir' = Join(dir, "tmp")
           /\ toolbox' = Some(Join(dir, "tmp"))
           /\ calls' = Append(calls,
                [tag |-> tag, run_dir |-> dir, init |-> with_initial_state,
                 first |-> Len(steps), entry |-> None, stages |-> <<>>,
                 outcomes |-> <<>>, inputs |-> <<>>, exit |-> None,
                 fs |-> None,
                 status |-> "running", result |-> None])
    /\ with_state' = with_initial_state
    /\ pc' = "mkdirp"
    /\ dirResult' = NoDirCall
    /\ takes' = <<>>
    /\ UNCHANGED <<prefixResult, factoryVars>>
    /\ UNCHANGED poolVars
    /\ UNCHANGED <<Steps, steps, ordinal, max_stage, task_id, progress,
                   state_list, idx, result, fs>>

\* mkdirp(self.run_dir)
Mkdirp ==
    /\ pc = "mkdirp"
    /\ fs' = mkdirp(fs, run_dir)
    /\ pc' = "dump"
    /\ dirResult' = NoDirCall
    /\ UNCHANGED <<takes, prefixResult, factoryVars>>
    /\ UNCHANGED poolVars
    /\ UNCHANGED <<Steps, steps, flowFields, runLocals, calls>>

\* start() going on to the progress bar with the configuration not written.
WriteConfig_NotWritten ==
    /\ pc = "dump"
    /\ fs' = fs
    /\ pc' = "progress"
    /\ dirResult' = NoDirCall
    /\ UNCHANGED <<takes, prefixResult, factoryVars>>
    /\ UNCHANGED poolVars
    /\ UNCHANGED <<Steps, steps, flowFields, runLocals, calls>>

\* The configuration is written to <run_dir>/resolved.json.
WriteConfig ==
    /\ pc = "dump"
    /\ fs' = write_file(fs, Join(run_dir, "resolved.json"), ConfigDump)
    /\ pc' = "progress"
    /\ dirResult' = NoDirCall
    /\ UNCHANGED <<takes, prefixResult, factoryVars>>
    /\ UNCHANGED poolVars
    /\ UNCHANGED <<Steps, steps, flowFields, runLocals, calls>>

\* The progress bar is made and started, and its task added.
ProgressStart ==
    /\ pc = "progress"
    /\ progress' = Some(NewProgress)
    /\ task_id' = Some(0)
    /\ pc' = "run"
    /\ dirResult' = NoDirCall
    /\ UNCHANGED <<takes, prefixResult, factoryVars>>
    /\ UNCHANGED poolVars
    /\ UNCHANGED <<Steps, steps, ordinal, max_stage, run_dir, tmp_dir, toolbox,
                   runLocals, fs, calls>>

\* StartReturn that also shuts the pool down as in
\* self.tpe.shutdown(wait=False, cancel_futures=True): queued work is dropped
\* and its Futures are cancelled.
StartReturn_ShutdownPool ==
    /\ pc = "return"
    /\ progress' = None
    /\ task_id' = None
    /\ tmp_dir' = None
    /\ toolbox' = None
    /\ ordinal' = 0
    /\ max_stage' = 0
    /\ calls' = [calls EXCEPT ![cur].status = "returned", ![cur].result = result]
    /\ pc' = "idle"
    /\ with_state' = None
    /\ state_list' = <<>>
    /\ idx' = 0
    /\ result' = None
    /\ dirResult' = NoDirCall
    /\ tpe' = [tpe EXCEPT !.queue = <<>>]
    /\ futures' = [h \in 1 .. Len(futures) |->
                      IF futures[h].state = "PENDING"
                      THEN [futures[h] EXCEPT !.state = "CANCELLED"]
                      ELSE futures[h]]
    /\ UNCHANGED <<Steps, steps, run_dir, fs>>
    /\ UNCHANGED <<takes, prefixResult, factoryVars>>

\* StartReturn with the two counters left as the run set them.
StartReturn_NoCounterReset ==
    /\ pc = "return"
    /\ progress' = None
    /\ task_id' = None
    /\ tmp_dir' = None
    /\ toolbox' = None
    /\ calls' = [calls EXCEPT ![cur].status = "returned", ![cur].result = result]
    /\ pc' = "idle"
    /\ with_state' = None
    /\ state_list' = <<>>
    /\ idx' = 0
    /\ result' = None
    /\ dirResult' = NoDirCall
    /\ UNCHANGED <<Steps, steps, ordinal, max_stage, run_dir, fs>>
    /\ UNCHANGED <<takes, prefixResult, factoryVars>>
    /\ UNCHANGED poolVars

\* start() after run() has returned: the progress bar is stopped, the stateful
\* objects are reset and the result is returned.
StartReturn ==
    /\ pc = "return"
    /\ progress' = None
    /\ task_id' = None
    /\ tmp_dir' = None
    /\ toolbox' = None
    /\ ordinal' = 0
    /\ max_stage' = 0
    /\ calls' = [calls EXCEPT ![cur].status = "returned", ![cur].result = result]
    /\ pc' = "idle"
    /\ with_state' = None
    /\ state_list' = <<>>
    /\ idx' = 0
    /\ result' = None
    /\ dirResult' = NoDirCall
    /\ UNCHANGED <<takes, prefixResult, factoryVars>>
    /\ UNCHANGED poolVars
    /\ UNCHANGED <<Steps, steps, run_dir, fs>>

\* ------------------------------------------------------ SequentialFlow.run
\* run() up to the loop: the stage count is set and the lineage begun.  A
\* State handed in by the caller is truthy, so `or State()` applies to None only.
RunBegin ==
    /\ pc = "run"
    /\ LET step_count == Len(Steps)
           initial_state == IF with_state # None THEN with_state[1]
                            ELSE DefaultState(cur)
       IN  /\ set_max_stage_count(step_count)
           /\ state_list' = <<initial_state>>
    /\ idx' = 0
    /\ calls' = [calls EXCEPT ![cur].entry = Some(ordinal), ![cur].fs = Some(fs)]
    /\ pc' = "for"
    /\ dirResult' = NoDirCall
    /\ UNCHANGED <<takes, prefixResult, factoryVars>>
    /\ UNCHANGED poolVars
    /\ UNCHANGED <<Steps, steps, ordinal, task_id, run_dir, tmp_dir, toolbox,
                   with_state, result, fs>>

\* The State a step is executed against: the most recently appended entry of
\* the lineage. (Step lies outside this file; run() itself passes nothing.)
state_in == state_list[Len(state_list)]

\* The loop takes the next step type: the step is made, recorded, its stage begun.
ForNext ==
    /\ pc = "for"
    /\ idx < Len(Steps)
    /\ LET cls == Steps[idx + 1]
           step == NewStep(cls, Len(steps) + 1)
       IN  /\ steps' = Append(steps, step)
           /\ start_stage(step.name)
           /\ calls' = [calls EXCEPT ![cur].stages = Append(@, step.name),
                                     ![cur].inputs = Append(@, state_in)]
    /\ idx' = idx + 1
    /\ pc' = "step"
    /\ dirResult' = NoDirCall
    /\ UNCHANGED <<takes, prefixResult, factoryVars>>
    /\ UNCHANGED poolVars
    /\ UNCHANGED <<Steps, max_stage, task_id, run_dir, tmp_dir, toolbox,
                   with_state, state_list, result, fs>>

\* StepOk keeping only the newest State: it takes the place of the last entry.
StepOk_Replace ==
    /\ pc = "step"
    /\ LET step == steps[Len(steps)]
           new_state == StepState(step.inst)
       IN  state_list' = [state_list EXCEPT ![Len(state_list)] = new_state]
    /\ end_stage
    /\ calls' = [calls EXCEPT ![cur].outcomes = Append(@, "ok")]
    /\ pc' = "for"
    /\ dirResult' = NoDirCall
    /\ UNCHANGED <<takes, prefixResult, factoryVars>>
    /\ UNCHANGED poolVars
    /\ UNCHANGED <<Steps, steps, ordinal, max_stage, task_id, run_dir, tmp_dir,
                   toolbox, with_state, idx, result, fs>>

\* StepOk with the append left out: the step's State never joins the lineage.
StepOk_NoAppend ==
    /\ pc = "step"
    /\ end_stage
    /\ calls' = [calls EXCEPT ![cur].outcomes = Append(@, "ok")]
    /\ pc' = "for"
    /\ dirResult' = NoDirCall
    /\ UNCHANGED <<Steps, steps, ordinal, max_stage, task_id, run_dir, tmp_dir,
                   toolbox, with_state, state_list, idx, result, fs>>
    /\ UNCHANGED <<takes, prefixResult, factoryVars>>
    /\ UNCHANGED poolVars

\* step.start() returns a State: it is appended and the stage ended.
StepOk ==
    /\ pc = "step"
    /\ LET step == steps[Len(steps)]
           new_state == StepState(step.inst)
       IN  state_list' = Append(state_list, new_state)
    /\ end_stage
    /\ calls' = [calls EXCEPT ![cur].outcomes = Append(@, "ok")]
    /\ pc' = "for"
    /\ dirResult' = NoDirCall
    /\ UNCHANGED <<takes, prefixResult, factoryVars>>
    /\ UNCHANGED poolVars
    /\ UNCHANGED <<Steps, steps, ordinal, max_stage, task_id, run_dir, tmp_dir,
                   toolbox, with_state, idx, result, fs>>

\* The except clause going back for another try: the failure is reported and
\* the loop takes the same step type again.
ReturnFailure_Retry(kind) ==
    /\ calls' = [calls EXCEPT ![cur].outcomes = Append(@, kind)]
    /\ idx' = idx - 1
    /\ pc' = "for"
    /\ dirResult' = NoDirCall
    /\ UNCHANGED <<Steps, steps, flowFields, with_state, state_list, result, fs>>
    /\ UNCHANGED <<takes, prefixResult, factoryVars>>
    /\ UNCHANGED poolVars

\* The except clause with the return left out: the failure is reported and
\* the loop goes on to the next step type.
ReturnFailure_Continue(kind) ==
    /\ calls' = [calls EXCEPT ![cur].outcomes = Append(@, kind)]
    /\ pc' = "for"
    /\ dirResult' = NoDirCall
    /\ UNCHANGED <<Steps, steps, flowFields, runLocals, fs>>
    /\ UNCHANGED <<takes, prefixResult, factoryVars>>
    /\ UNCHANGED poolVars

\* run() returns (False, state_list) from an except clause.
ReturnFailure(kind) ==
    /\ result' = Some([success |-> FALSE, lineage |-> state_list])
    /\ calls' = [calls EXCEPT ![cur].outcomes = Append(@, kind),
                              ![cur].exit = Some(ordinal)]
    /\ pc' = "return"
    /\ dirResult' = NoDirCall
    /\ UNCHANGED <<takes, prefixResult, factoryVars>>
    /\ UNCHANGED poolVars
    /\ UNCHANGED <<Steps, steps, flowFields, with_state, state_list, idx, fs>>

\* step.start() raises MissingInputError.
StepMissingInputError ==
    /\ pc = "step"
    /\ ReturnFailure("MissingInputError")

\* step.start() raises subprocess.CalledProcessError.
StepCalledProcessError ==
    /\ pc = "step"
    /\ ReturnFailure("CalledProcessError")

\* StepOtherError under a catch-all except clause: the failure becomes a
\* (False, state_list) result.
StepOtherError_Caught ==
    /\ pc = "step"
    /\ ReturnFailure("Exception")

\* step.start() raises anything else: no except clause matches, and start()
\* has no handler either, so both frames unwind to the caller.
StepOtherError ==
    /\ pc = "step"
    /\ calls' = [calls EXCEPT ![cur].outcomes = Append(@, "Exception"),
                              ![cur].exit = Some(ordinal),
                              ![cur].status = "raised"]
    /\ pc' = "idle"
    /\ with_state' = None
    /\ state_list' = <<>>
    /\ idx' = 0
    /\ result' = None
    /\ dirResult' = NoDirCall
    /\ UNCHANGED <<takes, prefixResult, factoryVars>>
    /\ UNCHANGED poolVars
    /\ UNCHANGED <<Steps, steps, flowFields, fs>>

\* The loop is exhausted: run() returns (True, state_list).
RunComplete ==
    /\ pc = "for"
    /\ idx = Len(Steps)
    /\ result' = Some([success |-> TRUE, lineage |-> state_list])
    /\ calls' = [calls EXCEPT ![cur].exit = Some(ordinal)]
    /\ pc' = "return"
    /\ dirResult' = NoDirCall
    /\ UNCHANGED <<takes, prefixResult, factoryVars>>
    /\ UNCHANGED poolVars
    /\ UNCHANGED <<Steps, steps, flowFields, with_state, state_list, idx, fs>>

\* ------------------------------------------- helpers called by the caller
\* dir_for_step(step): by the caller between invocations (with a step of the
\* first step type), or for the step that is executing.
DirForStep(cls) ==
    /\ \/ pc = "idle" /\ cls = 1 /\ dirResult' = dir_for_step(NewStep(cls, 0))
       \/ /\ pc = "step"
          /\ cls = steps[Len(steps)].cls
          /\ dirResult' = dir_for_step(steps[Len(steps)])
    /\ UNCHANGED <<Steps, steps, flowFields, pc, runLocals, fs, calls>>
    /\ UNCHANGED <<takes, prefixResult, factoryVars>>
    /\ UNCHANGED poolVars

Next ==
    \/ \E w \in InitialStates, t \in {None} \cup {Some(x) : x \in Tags}, now \in TimeTags :
            StartCall(w, t, now)
    \/ Mkdirp
    \/ WriteConfig
    \/ ProgressStart
    \/ RunBegin
    \/ ForNext
    \/ StepOk
    \/ StepMissingInputError
    \/ StepCalledProcessError
    \/ StepOtherError
    \/ RunComplete
    \/ StartReturn
    \/ \E cls \in StepTypes : DirForStep(cls)

Spec == Init /\ [][Next]_vars

\* ------------------------------------------- a strategy other than the linear one
\* A Flow subclass whose run() drives the stage helpers itself: it may declare
\* a stage count (or not), begin any number of stages, and ask for step
\* directories.  The class leaves Steps at the Flow default of one step type.
\* The counts such a run() passes to set_max_stage_count.
StageCounts == {0, 1, MaxOrdinal}

InitStrategy == Init /\ Len(Steps) = 1

\* The caller starts the one invocation this specification follows.
StartStrategy ==
    /\ cur = 0
    /\ StartCall(None, Some("t1"), "RUN_now")

\* run() calls set_max_stage_count(count).
StrategySetMaxStageCount(count) ==
    /\ pc = "run"
    /\ set_max_stage_count(count)
    /\ UNCHANGED <<Steps, steps, ordinal, task_id, run_dir, tmp_dir, toolbox,
                   pc, runLocals, fs, calls, dirResult>>
    /\ UNCHANGED <<takes, prefixResult, factoryVars>>
    /\ UNCHANGED poolVars

\* run() calls start_stage(name).
StrategyStartStage(name) ==
    /\ pc = "run"
    /\ ordinal < MaxOrdinal
    /\ start_stage(name)
    /\ UNCHANGED <<Steps, steps, max_stage, task_id, run_dir, tmp_dir, toolbox,
                   pc, runLocals, fs, calls, dirResult>>
    /\ UNCHANGED <<takes, prefixResult, factoryVars>>
    /\ UNCHANGED poolVars

\* run() calls end_stage().
StrategyEndStage ==
    /\ pc = "run"
    /\ end_stage
    /\ UNCHANGED <<Steps, steps, ordinal, max_stage, task_id, run_dir, tmp_dir,
                   toolbox, pc, runLocals, fs, calls, dirResult>>
    /\ UNCHANGED <<takes, prefixResult, factoryVars>>
    /\ UNCHANGED poolVars

\* run() calls dir_for_step(step); the two latest results are kept, each with
\* the ordinal and stage count it was taken at.
StrategyDirForStep(cls) ==
    /\ pc = "run"
    /\ LET take == [ord |-> ordinal, max |-> max_stage,
                    prefix |-> current_stage_prefix,
                    res |-> dir_for_step(NewStep(cls, 0))]
       IN  takes' = IF takes = <<>> THEN <<take>>
                    ELSE <<takes[Len(takes)], take>>
    /\ UNCHANGED <<Steps, steps, flowFields, pc, runLocals, fs, calls, dirResult>>
    /\ UNCHANGED <<prefixResult, factoryVars>>
    /\ UNCHANGED poolVars

\* run() returns (success, [initial_state]).
StrategyReturn(success) ==
    /\ pc = "run"
    /\ LET initial_state == IF with_state # None THEN with_state[1]
                            ELSE DefaultState(cur)
       IN  result' = Some([success |-> success, lineage |-> <<initial_state>>])
    /\ calls' = [calls EXCEPT ![cur].entry = Some(0), ![cur].exit = Some(ordinal)]
    /\ pc' = "return"
    /\ UNCHANGED <<Steps, steps, flowFields, with_state, state_list, idx, fs,
                   dirResult>>
    /\ UNCHANGED <<takes, prefixResult, factoryVars>>
    /\ UNCHANGED poolVars

NextStrategy ==
    \/ StartStrategy
    \/ Mkdirp
    \/ WriteConfig
    \/ ProgressStart
    \/ \E count \in StageCounts : StrategySetMaxStageCount(count)
    \/ StrategyStartStage(StepName(1))
    \/ StrategyEndStage
    \/ StrategyDirForStep(1)
    \/ \E success \in BOOLEAN : StrategyReturn(success)
    \/ StartReturn

SpecStrategy == InitStrategy /\ [][NextStrategy]_vars

\* --------------------------------------- current_stage_prefix on its own
\* The Flow inside the run() of such a strategy, invoked with tag "t1", after
\* set_max_stage_count(count) and ord calls of start_stage.
InitPrefix ==
    \E count \in 0 .. MaxStageCount, ord \in 0 .. MaxStageCount + 1 :
        LET dir == <<design_dir, "runs", "t1">>
        IN  /\ Steps = <<1>>
            /\ steps = <<>>
            /\ ordinal = ord
            /\ max_stage = count
            /\ task_id = Some(0)
            /\ progress = Some([started |-> TRUE, total |-> Some(count),
                                completed |-> 0,
                                description |-> IF ord = 0 THEN <<get_name>>
                                                ELSE <<get_name, ord, StepName(1)>>])
            /\ run_dir = dir
            /\ tmp_dir = Join(dir, "tmp")
            /\ toolbox = Some(Join(dir, "tmp"))
            /\ pc = "run"
            /\ with_state = None
            /\ state_list = <<>>
            /\ idx = 0
            /\ result = None
            /\ fs = write_file(mkdirp({}, dir), Join(dir, "resolved.json"), ConfigDump)
            /\ calls = <<[tag |-> "t1", run_dir |-> dir, init |-> None,
                          first |-> 0, entry |-> None, stages |-> <<>>,
                          outcomes |-> <<>>, inputs |-> <<>>, exit |-> None,
                 fs |-> None,
                          status |-> "running", result |-> None]>>
            /\ dirResult = NoDirCall
            /\ takes = <<>>
            /\ prefixResult = None
            /\ _registry = <<>>
            /\ registered = <<>>
            /\ getResult = None
            /\ listResult = None
            /\ tpe = [queue |-> <<>>, running |-> {}]
            /\ futures = <<>>

\* run() calls current_stage_prefix(): it reads the two fields and changes
\* nothing.
CurrentStagePrefix ==
    /\ pc = "run"
    /\ prefixResult' = Some([max |-> max_stage, ord |-> ordinal,
                             text |-> current_stage_prefix])
    /\ UNCHANGED <<Steps, steps, flowFields, pc, runLocals, fs, calls, dirResult>>
    /\ UNCHANGED <<takes, factoryVars>>
    /\ UNCHANGED poolVars

NextPrefix == CurrentStagePrefix

SpecPrefix == InitPrefix /\ [][NextPrefix]_vars

\* ------------------------------------------------------------ FlowFactory
\* Flow types that get registered: a type has its Python name and is told
\* apart from another type of the same name by where it was defined.
FlowNames == {"Basic", "Classic"}
FlowClasses == [name : FlowNames, module : {"a", "b"}]
\* Names looked up: the registered ones and one that never is.
LookupNames == FlowNames \cup {"Unregistered"}

\* dict.get(key) on the dict kept as (key, value) entries: the value, or None.
dict_get(d, key) ==
    IF \E i \in 1 .. Len(d) : d[i].key = key
    THEN Some(d[CHOOSE i \in 1 .. Len(d) : d[i].key = key].value)
    ELSE None

\* dict.setdefault(key, value): an existing key keeps its value.
dict_set_keep_first(d, key, value) ==
    IF \E i \in 1 .. Len(d) : d[i].key = key
    THEN d
    ELSE Append(d, [key |-> key, value |-> value])

\* The registry kept as a list of entries: every call adds one at the end.
dict_set_always_append(d, key, value) ==
    Append(d, [key |-> key, value |-> value])

\* d[key] = value: an existing key keeps its place and gets the value, a new
\* key is added at the end.
dict_set(d, key, value) ==
    IF \E i \in 1 .. Len(d) : d[i].key = key
    THEN [i \in 1 .. Len(d) |-> IF d[i].key = key
                                THEN [key |-> key, value |-> value] ELSE d[i]]
    ELSE Append(d, [key |-> key, value |-> value])

\* FlowFactory.register
Register(flow) ==
    /\ Len(registered) < MaxRegisters
    /\ LET name == flow.name
       IN  _registry' = dict_set(_registry, name, flow)
    /\ registered' = Append(registered, flow)
    /\ UNCHANGED <<getResult, listResult>>
    /\ UNCHANGED <<Steps, steps, flowFields, pc, runLocals, fs, calls, dirResult>>
    /\ UNCHANGED <<takes, prefixResult, poolVars>>

\* FlowFactory.get
Get(name) ==
    /\ getResult' = Some([name |-> name, value |-> dict_get(_registry, name),
                          after |-> Len(registered), raised |-> FALSE])
    /\ UNCHANGED <<_registry, registered, listResult>>
    /\ UNCHANGED <<Steps, steps, flowFields, pc, runLocals, fs, calls, dirResult>>
    /\ UNCHANGED <<takes, prefixResult, poolVars>>

\* list(d.keys()): the keys, in the dict's order.
dict_keys(d) == [i \in 1 .. Len(d) |-> d[i].key]

\* FlowFactory.list
List ==
    /\ listResult' = Some([names |-> dict_keys(_registry),
                           after |-> Len(registered)])
    /\ UNCHANGED <<_registry, registered, getResult>>
    /\ UNCHANGED <<Steps, steps, flowFields, pc, runLocals, fs, calls, dirResult>>
    /\ UNCHANGED <<takes, prefixResult, poolVars>>

InitRegistry == Init /\ Len(Steps) = 1

NextRegistry ==
    \/ \E flow \in FlowClasses : Register(flow)
    \/ \E name \in LookupNames : Get(name)
    \/ List

SpecRegistry == InitRegistry /\ [][NextRegistry]_vars

\* ------------------------------------ the stage helpers called from outside
\* One invocation of start() on a SequentialFlow, with the caller calling
\* set_max_stage_count and start_stage on the Flow whenever start() is not in
\* flight: before it, after it has returned, after it has raised.
IdleSetMaxStageCount(count) ==
    /\ pc = "idle"
    /\ set_max_stage_count(count)
    /\ dirResult' = NoDirCall
    /\ UNCHANGED <<Steps, steps, ordinal, task_id, run_dir, tmp_dir, toolbox,
                   pc, runLocals, fs, calls>>
    /\ UNCHANGED <<takes, prefixResult, factoryVars>>
    /\ UNCHANGED poolVars

IdleStartStage(name) ==
    /\ pc = "idle"
    /\ ordinal < MaxOrdinal
    /\ start_stage(name)
    /\ dirResult' = NoDirCall
    /\ UNCHANGED <<Steps, steps, max_stage, task_id, run_dir, tmp_dir, toolbox,
                   pc, runLocals, fs, calls>>
    /\ UNCHANGED <<takes, prefixResult, factoryVars>>
    /\ UNCHANGED poolVars

NextHelpers ==
    \/ StartStrategy
    \/ Mkdirp
    \/ WriteConfig
    \/ ProgressStart
    \/ RunBegin
    \/ ForNext
    \/ StepOk
    \/ StepMissingInputError
    \/ StepCalledProcessError
    \/ StepOtherError
    \/ RunComplete
    \/ StartReturn
    \/ \E count \in StageCounts : IdleSetMaxStageCount(count)
    \/ \E cls \in StepTypes : IdleStartStage(StepName(cls))

SpecHelpers == Init /\ [][NextHelpers]_vars

\* ------------------------------------------------- steps run on the pool
\* A strategy whose run() hands steps to run_step_async, followed through one
\* invocation of start(); the caller may also submit steps once that
\* invocation is over. The pool is the one made in __init__ and nothing shuts
\* it down.

\* What a step submitted to the pool is started with.
AsyncArgs == {<<>>, <<"state_in">>}

\* The Future of a new submission. call is the run_step_async call as it was
\* made and during the start() invocation in flight (0: none); fn and args
\* are what the pool was given to run.
NewFuture(step, args, call_args) ==
    [call |-> [step |-> step, args |-> call_args],
     during |-> IF Running THEN cur ELSE 0,
     fn |-> step, args |-> args, state |-> "PENDING", result |-> None]

\* tpe.submit(fn, *args): a Future is made and the work is queued.
submit(fn, args, call_args) ==
    /\ futures' = Append(futures, NewFuture(fn, args, call_args))
    /\ tpe' = [tpe EXCEPT !.queue = Append(@, Len(futures) + 1)]

\* run_step_async that submits step.start alone.
run_step_async_no_args(step, args) == submit(step, <<>>, args)

\* run_step_async(step, *args)
run_step_async(step, args) == submit(step, args, args)

\* run(), or the caller after start(), makes a step and calls run_step_async
\* on it.
RunStepAsync(cls, args) ==
    /\ pc = "run" \/ (pc = "idle" /\ cur > 0)
    /\ Len(futures) < MaxSubmits
    /\ run_step_async(NewStep(cls, Len(futures) + 1), args)
    /\ UNCHANGED <<Steps, steps, flowFields, pc, runLocals, fs, calls, dirResult>>
    /\ UNCHANGED <<takes, prefixResult, factoryVars>>

\* A free worker thread of the pool takes the oldest queued work.
WorkerTake ==
    /\ tpe.queue # <<>>
    /\ Cardinality(tpe.running) < MaxWorkers
    /\ LET h == Head(tpe.queue)
       IN  /\ tpe' = [queue |-> Tail(tpe.queue), running |-> tpe.running \cup {h}]
           /\ futures' = [futures EXCEPT ![h].state = "RUNNING"]
    /\ UNCHANGED <<Steps, steps, flowFields, pc, runLocals, fs, calls, dirResult>>
    /\ UNCHANGED <<takes, prefixResult, factoryVars>>

\* The worker's call of step.start(*args) returns and the Future gets the
\* State.
WorkerFinish(h) ==
    /\ h \in tpe.running
    /\ tpe' = [tpe EXCEPT !.running = @ \ {h}]
    /\ futures' = [futures EXCEPT
                     ![h].state = "FINISHED",
                     ![h].result = Some(StepStart(futures[h].fn, futures[h].args))]
    /\ UNCHANGED <<Steps, steps, flowFields, pc, runLocals, fs, calls, dirResult>>
    /\ UNCHANGED <<takes, prefixResult, factoryVars>>

NextAsync ==
    \/ StartStrategy
    \/ Mkdirp
    \/ WriteConfig
    \/ ProgressStart
    \/ \E args \in AsyncArgs : RunStepAsync(1, args)
    \/ WorkerTake
    \/ \E h \in 1 .. MaxSubmits : WorkerFinish(h)
    \/ \E success \in BOOLEAN : StrategyReturn(success)
    \/ StartReturn

\* Worker threads are scheduled, and every step.start the pool runs returns.
SpecAsync ==
    /\ InitStrategy
    /\ [][NextAsync]_vars
    /\ WF_vars(WorkerTake)
    /\ \A h \in 1 .. MaxSubmits : WF_vars(WorkerFinish(h))

\* ------------------------------------------------ reading the call records
\* The State a start() invocation begins its lineage with.
InitialOf(k) ==
    IF calls[k].init # None THEN calls[k].init[1] ELSE DefaultState(k)

\* The step instances made during invocation k, in order.
InstancesOf(k) ==
    LET last == IF k < cur THEN calls[k + 1].first ELSE Len(steps)
    IN  SubSeq(steps, calls[k].first + 1, last)

AllOk(c) == \A i \in 1 .. Len(c.outcomes) : c.outcomes[i] = "ok"
Handled == {"MissingInputError", "CalledProcessError"}
EndedIn(c, kinds) ==
    /\ c.outcomes # <<>>
    /\ c.outcomes[Len(c.outcomes)] \in kinds
NoRaiseBefore(k) == \A j \in 1 .. k - 1 : calls[j].status # "raised"

\* ------------------------------------------------------------------ claims
\* C1: on a SequentialFlow with N declared step types (N >= 0), an invocation
\* whose steps all succeed returns (True, lineage) with len(lineage) = N + 1
\* and lineage[0] the initial state; its stages were begun in the declared
\* order; and, on a Flow object none of whose steps has let a failure
\* propagate, the ordinal is exactly N when run() ends (0 when N = 0).
C1_AllSucceed ==
    \A k \in 1 .. cur :
        LET c == calls[k]
            N == Len(Steps)
        IN  (c.status # "running" /\ AllOk(c)) =>
                /\ c.status = "returned"
                /\ c.result # None
                /\ c.result[1].success = TRUE
                /\ Len(c.result[1].lineage) = N + 1
                /\ c.result[1].lineage[1] = InitialOf(k)
                /\ c.stages = [i \in 1 .. N |-> StepName(Steps[i])]
                /\ (NoRaiseBefore(k) => c.exit = Some(N))

C1_Witness ==
    \E k \in 1 .. cur :
        /\ calls[k].status = "returned"
        /\ AllOk(calls[k])
        /\ Len(calls[k].outcomes) = Len(Steps)
        /\ Len(Steps) >= 2

\* C2: if step k is the first to raise MissingInputError or
\* CalledProcessError, the invocation returns (False, lineage) with
\* len(lineage) = k (the initial state, then the outputs of steps 1..k-1), and
\* exactly k steps were made and begun in that run: none after position k.
C2_HandledFailureTruncates ==
    \A n \in 1 .. cur :
        LET c == calls[n]
            k == Len(c.outcomes)
            made == InstancesOf(n)
        IN  EndedIn(c, Handled) =>
                /\ c.status \in {"running", "returned"}
                /\ Len(made) = k
                /\ Len(c.stages) = k
                /\ \A i \in 1 .. k : made[i].cls = Steps[i]
                /\ c.status = "returned" =>
                    /\ c.result # None
                    /\ c.result[1].success = FALSE
                    /\ Len(c.result[1].lineage) = k
                    /\ c.result[1].lineage[1] = InitialOf(n)
                    /\ \A i \in 1 .. k - 1 :
                          c.result[1].lineage[i + 1] = StepState(made[i].inst)

C2_Witness ==
    \E n \in 1 .. cur :
        /\ calls[n].status = "returned"
        /\ EndedIn(calls[n], Handled)
        /\ Len(calls[n].outcomes) < Len(Steps)
        /\ n < cur

\* C3: a failure of a step that is neither MissingInputError nor
\* CalledProcessError is never turned into a (False, lineage) result: the
\* invocation ends by that failure reaching the caller, with no return value.
C3_OtherFailurePropagates ==
    \A n \in 1 .. cur :
        LET c == calls[n]
        IN  EndedIn(c, {"Exception"}) =>
                /\ c.status = "raised"
                /\ c.result = None
                /\ (n = cur => pc = "idle" /\ result = None)

C3_Witness ==
    \E n \in 1 .. cur :
        /\ EndedIn(calls[n], {"Exception"})
        /\ Len(calls[n].outcomes) = 2
        /\ calls[n].status = "raised"

\* C4: two successive start() calls that return, made with distinct tags, use
\* the two run directories <design_dir>/runs/<tag> (both created), the second
\* lineage begins at its own initial state and every later entry of it was
\* produced by a step made in the second run, and between the two calls the
\* ordinal and the expected stage count are 0.
C4_SuccessiveRunsIndependent ==
    /\ \A n \in 1 .. cur - 1 :
        LET a == calls[n]
            b == calls[n + 1]
        IN  (a.status = "returned" /\ b.status = "returned" /\ a.tag # b.tag) =>
                /\ a.run_dir = <<design_dir, "runs", a.tag>>
                /\ b.run_dir = <<design_dir, "runs", b.tag>>
                /\ a.run_dir # b.run_dir
                /\ \A d \in {a.run_dir, b.run_dir} :
                      [path |-> d, content |-> "<dir>"] \in fs
                /\ b.result[1].lineage[1] = InitialOf(n + 1)
                /\ \A i \in 2 .. Len(b.result[1].lineage) :
                      /\ b.result[1].lineage[i].src = "step"
                      /\ b.result[1].lineage[i].n > b.first
                /\ b.entry = Some(0)
    /\ (pc = "idle" /\ cur >= 1 /\ calls[cur].status = "returned") =>
            ordinal = 0 /\ max_stage = 0

C4_Witness ==
    \E n \in 1 .. cur - 1 :
        /\ calls[n].status = "returned"
        /\ calls[n + 1].status = "returned"
        /\ calls[n].tag # calls[n + 1].tag
        /\ Len(calls[n].result[1].lineage) >= 2
        /\ Len(calls[n + 1].result[1].lineage) >= 2

\* C5: when start() returns, every run-scoped field is unset or zero: ordinal
\* 0, expected stage count 0, run directory unset, scratch directory unset,
\* progress handle unset, and self.steps holds none of that run's steps.
C5_AllFieldsResetOnReturn ==
    (pc = "idle" /\ cur >= 1 /\ calls[cur].status = "returned") =>
        /\ ordinal = 0
        /\ max_stage = 0
        /\ run_dir = None
        /\ tmp_dir = None
        /\ progress = None
        /\ task_id = None
        /\ InstancesOf(cur) = <<>>

\* C6: the ordinal is 0 whenever start() hands control to run(), whatever the
\* earlier invocations on the object did (returned True, returned False, or
\* let a step's failure propagate), and within a run it grows by exactly one
\* per start_stage.
C6_OrdinalZeroAtRunEntry ==
    /\ pc = "run" => ordinal = 0
    /\ pc \in {"for", "step", "return"} => ordinal = calls[cur].entry[1] + idx

\* C7: dir_for_step raises whenever no start() invocation is in flight (before
\* the first and after any has returned), and returns
\* <run_dir>/<current_stage_prefix()><step.id> during a run.
C7_DirForStepOnlyDuringRun ==
    dirResult.called =>
        IF dirResult.inflight
        THEN /\ ~dirResult.raised
             /\ dirResult.dir = run_dir
             /\ dirResult.base = current_stage_prefix \o steps[Len(steps)].id
        ELSE dirResult.raised

\* Reading a prefix back: the number its digits spell, and whether it is
\* digits followed by one "-".
RECURSIVE DigitsValue(_)
DigitsValue(d) ==
    IF d = <<>> THEN 0
    ELSE 10 * DigitsValue(SubSeq(d, 1, Len(d) - 1)) + (d[Len(d)] - 48)

RECURSIVE DigitCount(_)
DigitCount(n) == IF n < 10 THEN 1 ELSE 1 + DigitCount(n \div 10)

\* C8: for every expected stage count M >= 1 and ordinal 0 <= o <= M,
\* current_stage_prefix() is the decimal digits of o, zero-padded on the left
\* to exactly as many characters as M has digits, followed by "-"; M = 12,
\* o = 3 gives "03-" and M = 150, o = 1 gives "001-".
C8_PrefixIsZeroPaddedOrdinal ==
    prefixResult # None =>
        LET r == prefixResult[1]
            w == DigitCount(r.max)
            digits == SubSeq(r.text, 1, Len(r.text) - 1)
        IN  (r.max >= 1 /\ r.ord <= r.max) =>
                /\ Len(r.text) = w + 1
                /\ r.text[w + 1] = 45
                /\ \A i \in 1 .. w : r.text[i] \in 48 .. 57
                /\ DigitsValue(digits) = r.ord
                /\ (r.max = 12 /\ r.ord = 3) => r.text = <<48, 51, 45>>
                /\ (r.max = 150 /\ r.ord = 1) => r.text = <<48, 48, 49, 45>>

C8_Witness ==
    /\ prefixResult # None
    /\ prefixResult[1].max = 150
    /\ prefixResult[1].ord = 1
    /\ prefixResult[1].text = <<48, 48, 49, 45>>

\* Lexicographic order of two texts, as a directory listing sorts names: by
\* character code, a proper prefix first.
RECURSIVE StrLess(_, _)
StrLess(a, b) ==
    IF b = <<>> THEN FALSE
    ELSE IF a = <<>> THEN TRUE
    ELSE IF Head(a) # Head(b) THEN Head(a) < Head(b)
    ELSE StrLess(Tail(a), Tail(b))

\* C9 as claimed: within one invocation, for any strategy (also one that
\* begins more stages than it declared, or declared none), a prefix taken at
\* a smaller ordinal is strictly smaller as a string than one taken at a
\* larger ordinal, and so are the step directory names.
C9_PrefixesSortForAnyStrategy ==
    Len(takes) = 2 =>
        (takes[1].ord < takes[2].ord =>
            /\ StrLess(takes[1].prefix, takes[2].prefix)
            /\ StrLess(takes[1].res.base, takes[2].res.base))

\* C9 as amended: two prefixes taken in one invocation at ordinals i < j under
\* the same expected stage count M with j <= M sort in execution order, and so
\* do the step directory names built from them.
C9_PrefixesSortWithinDeclaredCount ==
    Len(takes) = 2 =>
        ((/\ takes[1].ord < takes[2].ord
          /\ takes[1].max = takes[2].max
          /\ takes[2].ord <= takes[2].max) =>
            /\ StrLess(takes[1].prefix, takes[2].prefix)
            /\ StrLess(takes[1].res.base, takes[2].res.base)
            /\ takes[1].res.dir = takes[2].res.dir)

C9_Witness ==
    /\ Len(takes) = 2
    /\ takes[1].ord = 9
    /\ takes[2].ord = 10
    /\ takes[1].max = 10
    /\ takes[2].max = 10
    /\ StrLess(takes[1].res.base, takes[2].res.base)

\* The type registered latest under a name among the first n register calls.
LatestRegistered(n, name) ==
    LET hits == {i \in 1 .. n : registered[i].name = name}
    IN  IF hits = {} THEN None
        ELSE Some(registered[CHOOSE i \in hits : \A j \in hits : j <= i])

\* C10: after any sequence of register calls, get(n) returns the type
\* registered latest under n (a later registration replaces an earlier one
\* silently), returns None, without raising, for a name nothing was
\* registered under, and leaves the registry as the register calls made it.
C10_GetReturnsLatestRegistered ==
    /\ getResult # None =>
        /\ ~getResult[1].raised
        /\ getResult[1].value =
              LatestRegistered(getResult[1].after, getResult[1].name)
    /\ \A name \in LookupNames :
          dict_get(_registry, name) = LatestRegistered(Len(registered), name)
    /\ Len(_registry) = Cardinality({registered[i].name : i \in 1 .. Len(registered)})

C10_Witness ==
    /\ getResult # None
    /\ getResult[1].after = 2
    /\ registered[1].name = registered[2].name
    /\ registered[1] # registered[2]
    /\ getResult[1].name = registered[2].name
    /\ getResult[1].value = Some(registered[2])

\* C11: after any sequence of register calls, also repeated ones under one
\* name, list() holds each registered name exactly once and nothing else: its
\* elements are the names registered so far and its length is the number of
\* distinct names.
C11_ListHasEachNameOnce ==
    listResult # None =>
        LET r == listResult[1]
            names == {registered[i].name : i \in 1 .. r.after}
        IN  /\ {r.names[i] : i \in 1 .. Len(r.names)} = names
            /\ Len(r.names) = Cardinality(names)
            /\ \A i, j \in 1 .. Len(r.names) : r.names[i] = r.names[j] => i = j

C11_Witness ==
    /\ listResult # None
    /\ listResult[1].after = 3
    /\ Len(listResult[1].names) = 2
    /\ registered[1].name = registered[3].name
    /\ registered[1] # registered[3]

\* Handle h has resolved to the State that the step.start call its
\* run_step_async call named produces.
Resolved(h) ==
    /\ Len(futures) >= h
    /\ futures[h].state = "FINISHED"
    /\ futures[h].result = Some(StepStart(futures[h].call.step, futures[h].call.args))

\* C12: every handle run_step_async returns eventually resolves to the State
\* that step.start called directly with the same arguments produces, however
\* many submissions are outstanding, also more than the pool has workers.
C12_EveryHandleResolves ==
    \A h \in 1 .. MaxSubmits : (Len(futures) >= h) ~> Resolved(h)

C12_Witness ==
    /\ Cardinality(tpe.running) = MaxWorkers
    /\ tpe.queue # <<>>
    /\ \E h \in 1 .. Len(futures) :
           /\ Resolved(h)
           /\ futures[h].call.args # <<>>

\* Handle h was returned during an invocation of start() that has returned,
\* and has not resolved.
OutlivesStart(h) ==
    /\ Len(futures) >= h
    /\ futures[h].during > 0
    /\ calls[futures[h].during].status = "returned"
    /\ futures[h].state \in {"PENDING", "RUNNING"}

\* C18: the return of start() neither waits for nor cancels a step submitted
\* through run_step_async: it leaves the pool and the handles as they are, and
\* a handle unresolved at that moment still resolves afterwards.
C18_SubmittedStepOutlivesStart ==
    /\ [][pc = "return" /\ pc' = "idle" => UNCHANGED poolVars]_vars
    /\ \A h \in 1 .. MaxSubmits : OutlivesStart(h) ~> Resolved(h)

C18_Witness ==
    /\ pc = "idle"
    /\ \E h, g \in 1 .. Len(futures) :
           /\ OutlivesStart(h) /\ futures[h].state = "PENDING"
           /\ OutlivesStart(g) /\ futures[g].state = "RUNNING"

\* The run directory of the invocation in flight exists.
RunDirExists == [path |-> run_dir, content |-> "<dir>"] \in fs

\* <run_dir>/resolved.json of the invocation in flight holds the configuration.
ConfigWritten ==
    [path |-> Join(run_dir, "resolved.json"), content |-> ConfigDump] \in fs

\* C13: in every invocation of start(), a first one or a later one on the
\* same Flow, the run directory exists when the configuration is about to be
\* written, and the configuration is in <run_dir>/resolved.json before any
\* step of the invocation is instantiated or executed.
C13_ConfigWrittenBeforeSteps ==
    /\ pc \in {"mkdirp", "dump", "progress", "run"} => InstancesOf(cur) = <<>>
    /\ pc = "dump" => RunDirExists
    /\ pc \in {"progress", "run", "for", "step", "return"} =>
           RunDirExists /\ ConfigWritten

C13_Witness ==
    /\ cur = 2
    /\ calls[1].run_dir # calls[2].run_dir
    /\ pc = "step"
    /\ Len(InstancesOf(cur)) = 1
    /\ ConfigWritten

\* C14: set_max_stage_count and start_stage called while no invocation of
\* start() is in flight leave the stage ordinal and the expected stage count
\* as they were, whatever the arguments and however often they are called.
C14_HelpersNoOpOutsideStart ==
    [][pc = "idle" /\ pc' = "idle" => UNCHANGED <<ordinal, max_stage>>]_vars

C16_OneStepAtATime ==
    /\ \A i, j \in 1 .. Len(steps) : steps[i].inst = steps[j].inst => i = j
    /\ \A k \in 1 .. cur :
           LET made == InstancesOf(k)
               out == calls[k].outcomes
               executing == k = cur /\ pc = "step"
           IN  /\ Len(made) <= Len(Steps)
               /\ \A i \in 1 .. Len(made) : made[i].cls = Steps[i]
               /\ Len(made) = Len(out) + (IF executing THEN 1 ELSE 0)
               /\ \A i \in 1 .. Len(made) - 1 : i <= Len(out) /\ out[i] = "ok"
               /\ executing => steps[Len(steps)] = made[Len(made)]

C16_Witness ==
    /\ cur = 2
    /\ pc = "step"
    /\ Len(InstancesOf(1)) = 2
    /\ EndedIn(calls[1], Handled)
    /\ Len(InstancesOf(2)) = 2
    /\ Len(calls[2].outcomes) = 1

\* run() holds a lineage: from state_list = [initial_state] to its return.
HasLineage(p) == p \in {"for", "step", "return"}

\* The steps of the invocation in flight that have returned a State.
Completed ==
    {i \in 1 .. Len(calls[cur].outcomes) : calls[cur].outcomes[i] = "ok"}

\* C17: during a SequentialFlow run the lineage is append-only (no step of the
\* run shortens it or changes an entry it has), lineage[0] is the initial
\* state, lineage[i] for i >= 1 is the output of the i-th executed step, and
\* its length is 1 plus the number of steps that have completed successfully.
C17_LineageAppendOnly ==
    /\ [](HasLineage(pc) =>
            /\ Len(state_list) = 1 + Cardinality(Completed)
            /\ state_list[1] = InitialOf(cur)
            /\ \A i \in 2 .. Len(state_list) :
                   state_list[i] = StepState(InstancesOf(cur)[i - 1].inst))
    /\ [][(HasLineage(pc) /\ HasLineage(pc')) =>
            /\ Len(state_list') >= Len(state_list)
            /\ SubSeq(state_list', 1, Len(state_list)) = state_list]_vars

C17_Witness ==
    /\ pc = "return"
    /\ Len(state_list) = 3
    /\ result # None
    /\ result[1].lineage = state_list

\* C19: at every point of a SequentialFlow run with N declared steps, once
\* run() has declared its stage count, 0 <= completed <= ordinal <= expected
\* stage count = N; completed is ordinal - 1 exactly while a step executes and
\* equals the ordinal after end_stage; after a handled failure at step k
\* completed is k - 1 and the ordinal is k until start() tears down.
C19_CompletedFollowsOrdinal ==
    HasLineage(pc) =>
        LET completed == progress[1].completed
            N == Len(Steps)
        IN  /\ 0 <= completed
            /\ completed <= ordinal
            /\ ordinal <= max_stage
            /\ max_stage = N
            /\ pc = "step" => completed = ordinal - 1
            /\ pc = "for" => completed = ordinal
            /\ (pc = "return" /\ result[1].success) => completed = ordinal
            /\ (pc = "return" /\ ~result[1].success) =>
                   completed = idx - 1 /\ ordinal = idx

====
